---- MODULE Spec2Model ----
(***************************************************************************)
(* Model of tools/task_allocation_tester/task_allocation_tester.py: the    *)
(* three greedy placement heuristics first_fit, next_fit and best_fit      *)
(* working on a capacity profile ("step function") and a task list, and    *)
(* the evaluation loop that sorts the tasks before calling a heuristic.    *)
(*                                                                         *)
(* Slot indices and recorded start/end times are 0-based as in the Python  *)
(* code; TLA+ sequences are 1-based, so slot t is step_function[t+1].      *)
(* One action is one iteration of the heuristic's `for i, x in             *)
(* enumerate(tasks)` loop, i.e. the complete handling of one task.         *)
(***************************************************************************)
EXTENDS Integers, Sequences, FiniteSets, TLC

\* ---------------------------------------------------------------- bounds
MaxLen == 3
MaxCap == 2
MaxTasks == 2
MaxWidth == 2
TrialLen == 2
RngMod == 16
MaxSample2 == 5
MaxChars == 2

\* ------------------------------------------------------------- constants
Unplaced == -1
Days == 7
HoursPerDay == 24
ActiveStart == 8
FallStart == 14
ActiveEnd == 21
HttpOk == 200
MaxRetries == 2

Heuristics == {"first_fit", "next_fit", "best_fit"}
Orders == {"width", "height", "area"}

VARIABLES
    heuristic,          \* which heuristic the run uses
    order,              \* the sort key of the evaluation loop ("none": direct call)
    step_function,      \* the capacity profile, mutated in place
    tasks,              \* the task list; each task has width, height, start_time, end_time
    i,                  \* number of tasks the heuristic's loop has handled so far
    it_begin,           \* next_fit's scan start variable, as left by the last iteration
    pc,                 \* control position: "sort", "alloc", "done", "reported", "crash",
                        \* and "gen", "gen_done" inside the two generators
    step_function_old,  \* copy of the profile taken before the run
    prev_sf,            \* history: the profile as it stood before the last iteration
    prev_it_begin,      \* history: it_begin as it stood before the last iteration
    efficacy,           \* the value the trial appends to efficacy[order][heuristic]
    rng,                \* state of the random source the generators draw from
    day,                \* generate_step_function: loop variable day
    hour,               \* generate_step_function: loop variable t
    energy_day,         \* generate_step_function: the day built so far
    energy_weekly,      \* generate_step_function: flat profile built so far
    energy_daily,       \* generate_step_function: list of finished days
    num_tasks,          \* generate_task: argument num_tasks
    gen_tasks,          \* generate_task: the list built so far
    cur_width,          \* generate_task: width accepted for the task being built, -1: none yet
    num_tries,          \* get_energy_24h: local num_tries
    queries,            \* history: responses get_energy_24h has received, in order
    outcome             \* how get_energy_24h ended: what it returned or raised

allocVars == <<heuristic, order, step_function, tasks, i, it_begin, pc,
               step_function_old, prev_sf, prev_it_begin>>

stepGenVars == <<rng, day, hour, energy_day, energy_weekly, energy_daily>>

taskGenVars == <<num_tasks, gen_tasks, cur_width>>

collVars == <<num_tries, queries, outcome>>

genVars == <<stepGenVars, taskGenVars, collVars>>

vars == <<allocVars, efficacy, genVars>>

\* class task: a fresh task is unplaced.
task(width, height) ==
    [width |-> width, height |-> height, start_time |-> Unplaced, end_time |-> Unplaced]

\* ------------------------------------------------------------ sort keys
sort_by_width(x) == x.width

sort_by_height(x) == x.height

sort_by_area(x) == x.width * x.height

SortKey(o, x) ==
    IF o = "width" THEN sort_by_width(x)
    ELSE IF o = "height" THEN sort_by_height(x)
    ELSE sort_by_area(x)

\* list.sort(key=...): stable, ascending (no reverse=True is passed).
\* InsertByKey puts x behind every element whose key is <= its own.
RECURSIVE InsertByKey(_, _, _)
InsertByKey(o, x, s) ==
    IF s = <<>> THEN <<x>>
    ELSE IF SortKey(o, x) < SortKey(o, Head(s)) THEN <<x>> \o s
    ELSE <<Head(s)>> \o InsertByKey(o, x, Tail(s))

RECURSIVE ListSort(_, _)
ListSort(o, s) ==
    IF s = <<>> THEN <<>>
    ELSE InsertByKey(o, s[Len(s)], ListSort(o, SubSeq(s, 1, Len(s) - 1)))

\* ------------------------------------------------- shared placement code
\* for t in range(t1, t2+1): step_function[t] -= x.height
SubtractOffByOne(sf, t1, t2, height) ==
    [s \in 1..Len(sf) |-> IF t1 <= s - 1 /\ s - 1 <= t2 + 1 THEN sf[s] - height ELSE sf[s]]

SubtractAdds(sf, t1, t2, height) ==
    [s \in 1..Len(sf) |-> IF t1 <= s - 1 /\ s - 1 <= t2 THEN sf[s] + height ELSE sf[s]]

Subtract(sf, t1, t2, height) ==
    [s \in 1..Len(sf) |-> IF t1 <= s - 1 /\ s - 1 <= t2 THEN sf[s] - height ELSE sf[s]]

\* Python slices step_function[b:] and step_function[:b]
SliceFrom(sf, b) == IF b >= Len(sf) THEN <<>> ELSE SubSeq(sf, b + 1, Len(sf))

SliceTo(sf, b) == IF b >= Len(sf) THEN sf ELSE SubSeq(sf, 1, b)

\* -------------------------------------------------------------- first_fit
\* The scan loop of first_fit from slot t on, with the run start t1 so far.
\* Result: t1 and t2 as they are when the loop ends (t2 = -1: no break).
RECURSIVE FirstFitScanStrict(_, _, _, _)
FirstFitScanStrict(sf, x, t, t1) ==
    IF t >= Len(sf) THEN [t1 |-> t1, t2 |-> -1]
    ELSE IF sf[t + 1] <= x.height THEN FirstFitScanStrict(sf, x, t + 1, -1)
    ELSE LET n1 == IF t1 = -1 THEN t ELSE t1 IN
         IF t - n1 = x.width - 1 THEN [t1 |-> n1, t2 |-> t]
         ELSE FirstFitScanStrict(sf, x, t + 1, n1)

RECURSIVE FirstFitScan(_, _, _, _)
FirstFitScan(sf, x, t, t1) ==
    IF t >= Len(sf) THEN [t1 |-> t1, t2 |-> -1]
    ELSE IF sf[t + 1] < x.height THEN FirstFitScan(sf, x, t + 1, -1)
    ELSE LET n1 == IF t1 = -1 THEN t ELSE t1 IN
         IF t - n1 = x.width - 1 THEN [t1 |-> n1, t2 |-> t]
         ELSE FirstFitScan(sf, x, t + 1, n1)

\* if t1 != -1 and t2 != -1:
FirstFitFoundOr(t1, t2) == t1 # -1 \/ t2 # -1

FirstFitFound(t1, t2) == t1 # -1 /\ t2 # -1

\* One iteration of first_fit's task loop for the task at 0-based index k.
FirstFitIterWritesFirst(ts, sf, k) ==
    LET x == ts[k + 1]
        r == FirstFitScan(sf, x, 0, -1)
    IN  IF FirstFitFound(r.t1, r.t2)
        THEN [tasks |-> [ts EXCEPT ![1].start_time = r.t1, ![1].end_time = r.t2],
              step_function |-> Subtract(sf, r.t1, r.t2, x.height)]
        ELSE [tasks |-> ts, step_function |-> sf]

FirstFitIter(ts, sf, k) ==
    LET x == ts[k + 1]
        r == FirstFitScan(sf, x, 0, -1)
    IN  IF FirstFitFound(r.t1, r.t2)
        THEN [tasks |-> [ts EXCEPT ![k + 1].start_time = r.t1, ![k + 1].end_time = r.t2],
              step_function |-> Subtract(sf, r.t1, r.t2, x.height)]
        ELSE [tasks |-> ts, step_function |-> sf]

RECURSIVE FirstFitFrom(_, _, _)
FirstFitFrom(ts, sf, k) ==
    IF k >= Len(ts) THEN [tasks |-> ts, step_function |-> sf]
    ELSE LET r == FirstFitIter(ts, sf, k) IN FirstFitFrom(r.tasks, r.step_function, k + 1)

\* first_fit(tasks, step_function) as a whole
first_fit(ts, sf) == FirstFitFrom(ts, sf, 0)

\* --------------------------------------------------------------- next_fit
\* it_begin = 0 at the top of every iteration of the task loop
ItBeginPersist(cur) == cur

ItBeginAtTaskStart(cur) == 0

\* first scan loop: enumerate(step_function[it_begin:]); t counts from 0
RECURSIVE NextFitScanTail(_, _, _, _)
NextFitScanTail(sl, x, t, t1) ==
    IF t >= Len(sl) THEN [t1 |-> t1, t2 |-> -1]
    ELSE IF sl[t + 1] < x.height THEN NextFitScanTail(sl, x, t + 1, -1)
    ELSE LET n1 == IF t1 = -1 THEN t ELSE t1 IN
         IF t - n1 = x.width - 1 THEN [t1 |-> n1, t2 |-> t]
         ELSE NextFitScanTail(sl, x, t + 1, n1)

\* second scan loop: enumerate(step_function[:it_begin]); t1 carries over
RECURSIVE NextFitScanHead(_, _, _, _)
NextFitScanHead(sl, x, t, t1) ==
    IF t >= Len(sl) THEN [t1 |-> t1, t2 |-> -1]
    ELSE IF sl[t + 1] < x.height THEN NextFitScanHead(sl, x, t + 1, -1)
    ELSE LET n1 == IF t1 = -1 THEN t ELSE t1 IN
         IF t - n1 = x.width - 1 THEN [t1 |-> n1, t2 |-> t]
         ELSE NextFitScanHead(sl, x, t + 1, n1)

\* if t2 == len(step_function): it_begin = 0  else: it_begin = t2 + 1
NextItBegin(sf, t2) == IF t2 = Len(sf) THEN 0 ELSE t2 + 1

\* One iteration of next_fit's task loop; cur is it_begin left by the last one.
NextFitIter(ts, sf, k, cur) ==
    LET x  == ts[k + 1]
        b  == ItBeginAtTaskStart(cur)
        r1 == NextFitScanTail(SliceFrom(sf, b), x, 0, -1)
        r  == IF r1.t1 = -1 \/ r1.t2 = -1
              THEN NextFitScanHead(SliceTo(sf, b), x, 0, r1.t1)
              ELSE r1
    IN  IF r.t1 # -1 /\ r.t2 # -1
        THEN [tasks |-> [ts EXCEPT ![k + 1].start_time = r.t1, ![k + 1].end_time = r.t2],
              step_function |-> Subtract(sf, r.t1, r.t2, x.height),
              it_begin |-> NextItBegin(sf, r.t2)]
        ELSE [tasks |-> ts, step_function |-> sf, it_begin |-> NextItBegin(sf, r.t2)]

\* --------------------------------------------------------------- best_fit
\* The scan loop of best_fit from slot t on.
RECURSIVE BestFitScan(_, _, _, _, _)
BestFitScan(sf, x, t, t1, cur_area) ==
    IF t >= Len(sf) THEN [t1 |-> t1, t2 |-> -1, best_pos |-> -1]
    ELSE LET step == sf[t + 1] IN
         IF step < x.height THEN BestFitScan(sf, x, t + 1, -1, 0)
         ELSE LET n1 == IF t1 = -1 THEN t ELSE t1
                  a1 == IF t1 = -1 THEN cur_area + (step - x.height) ELSE cur_area
              IN  IF t - n1 < x.width - 1
                  THEN BestFitScan(sf, x, t + 1, n1, a1 + (step - x.height))
                  ELSE IF t - n1 = x.width - 1
                  THEN LET a2 == a1 + (step - x.height) IN
                       \* max_area is still 0 here: it is only assigned right before the break
                       [t1 |-> n1, t2 |-> t, best_pos |-> IF a2 > 0 THEN n1 ELSE -1]
                  ELSE BestFitScan(sf, x, t + 1, n1, a1)

\* tasks[i].end_time = best_pos + x.width - 1
BestFitEndOffByOne(best_pos, x) == best_pos + x.width

BestFitEnd(best_pos, x) == best_pos + x.width - 1

\* One iteration of best_fit's task loop.
BestFitIter(ts, sf, k) ==
    LET x == ts[k + 1]
        r == BestFitScan(sf, x, 0, -1, 0)
    IN  IF r.t1 # -1 /\ r.t2 # -1
        THEN [tasks |-> [ts EXCEPT ![k + 1].start_time = r.best_pos,
                                   ![k + 1].end_time = BestFitEnd(r.best_pos, x)],
              step_function |-> Subtract(sf, r.t1, r.t2, x.height)]
        ELSE [tasks |-> ts, step_function |-> sf]

\* ------------------------------------------------------------------ inputs
Profiles == UNION {[1..n -> 0..MaxCap] : n \in 0..MaxLen}

\* Power draws range over the capacities a slot can have.
TaskKinds == {task(w, h) : w \in 1..MaxWidth, h \in 0..MaxCap}

TaskLists == UNION {[1..n -> TaskKinds] : n \in 0..MaxTasks}

\* The worked scenarios of the documentation, and two longer profiles: one
\* where the second task fits both before and behind the first placement,
\* one where a lone sufficient slot lies behind the first placement.
Scenarios ==
    { << <<5, 5, 5, 0, 0, 5, 5, 5>>, <<task(3, 5)>> >>,
      << <<3, 3, 3, 3>>, <<task(2, 5), task(1, 3)>> >>,
      << <<5, 5, 5, 5, 5, 5>>, <<task(2, 5), task(2, 5)>> >>,
      << <<10, 10, 5, 5>>, <<task(2, 5), task(2, 5)>> >>,
      << <<2, 2, 0, 1>>, <<task(2, 1), task(2, 1)>> >> }

Inputs == (Profiles \X TaskLists) \cup Scenarios

\* ------------------------------------------------------------------ state
\* What get_energy_24h has returned or raised; kind "none": nothing yet.
Outcome(kind, message, timestamp, energy_list) ==
    [kind |-> kind, message |-> message, timestamp |-> timestamp,
     energy_list |-> energy_list]

NoOutcome == Outcome("none", "", 0, <<>>)

\* get_energy_24h is not running.
CollectorIdle ==
    /\ num_tries = 0 /\ queries = <<>> /\ outcome = NoOutcome

\* The generators are not running.
GenIdle ==
    /\ rng = 0 /\ day = 0 /\ hour = 0
    /\ energy_day = <<>> /\ energy_weekly = <<>> /\ energy_daily = <<>>
    /\ num_tasks = 0 /\ gen_tasks = <<>> /\ cur_width = -1
    /\ CollectorIdle

InitOn(inputs) ==
    /\ heuristic \in Heuristics
    /\ \E inp \in inputs : step_function = inp[1] /\ tasks = inp[2]
    /\ i = 0
    /\ it_begin = 0
    /\ step_function_old = step_function
    /\ prev_sf = step_function
    /\ prev_it_begin = 0
    /\ efficacy = [kind |-> "none", num |-> 0, den |-> 0]
    /\ GenIdle

InitCommon == InitOn(Inputs)

\* A heuristic called directly on an arbitrary task list.
Init ==
    /\ InitCommon
    /\ order = "none"
    /\ pc = "alloc"

\* A heuristic called directly with arguments nothing has vetted: durations
\* may be 0 and power draws negative (the functions take whatever they get).
AnyTaskKinds == {task(w, h) : w \in 0..MaxWidth, h \in (-1)..MaxCap}

AnyTaskLists == UNION {[1..n -> AnyTaskKinds] : n \in 0..MaxTasks}

InitAny ==
    /\ InitOn(Profiles \X AnyTaskLists)
    /\ order = "none"
    /\ pc = "alloc"

\* What the evaluation loop gets from the generators: a non-empty profile and
\* a non-empty task list (generate_task(20, ...)); np.round turns an accepted
\* sample of exactly 0.5 into 0, so a generated width or height can be 0.
GeneratedTaskKinds == {task(w, h) : w \in 0..MaxWidth, h \in 0..MaxCap}

GeneratedTaskLists == UNION {[1..n -> GeneratedTaskKinds] : n \in 1..MaxTasks}

TrialProfiles == UNION {[1..n -> 0..MaxCap] : n \in 1..TrialLen}

HarnessInputs == TrialProfiles \X GeneratedTaskLists

\* One trial of the evaluation loop: the tasks are sorted first.
InitHarness ==
    /\ InitOn(HarnessInputs)
    /\ order \in Orders
    /\ pc = "sort"

\* tasks.sort(key=sort_by_<order>)
Sort ==
    /\ pc = "sort"
    /\ tasks' = ListSort(order, tasks)
    /\ pc' = "alloc"
    /\ UNCHANGED <<heuristic, order, step_function, i, it_begin,
                   step_function_old, prev_sf, prev_it_begin>>
    /\ UNCHANGED <<efficacy, genVars>>

FirstFit ==
    /\ pc = "alloc" /\ heuristic = "first_fit" /\ i < Len(tasks)
    /\ LET r == FirstFitIter(tasks, step_function, i) IN
         /\ tasks' = r.tasks
         /\ step_function' = r.step_function
    /\ i' = i + 1
    /\ prev_sf' = step_function
    /\ prev_it_begin' = it_begin
    /\ UNCHANGED <<heuristic, order, it_begin, pc, step_function_old>>
    /\ UNCHANGED <<efficacy, genVars>>

NextFit ==
    /\ pc = "alloc" /\ heuristic = "next_fit" /\ i < Len(tasks)
    /\ LET r == NextFitIter(tasks, step_function, i, it_begin) IN
         /\ tasks' = r.tasks
         /\ step_function' = r.step_function
         /\ it_begin' = r.it_begin
    /\ i' = i + 1
    /\ prev_sf' = step_function
    /\ prev_it_begin' = it_begin
    /\ UNCHANGED <<heuristic, order, pc, step_function_old>>
    /\ UNCHANGED <<efficacy, genVars>>

BestFit ==
    /\ pc = "alloc" /\ heuristic = "best_fit" /\ i < Len(tasks)
    /\ LET r == BestFitIter(tasks, step_function, i) IN
         /\ tasks' = r.tasks
         /\ step_function' = r.step_function
    /\ i' = i + 1
    /\ prev_sf' = step_function
    /\ prev_it_begin' = it_begin
    /\ UNCHANGED <<heuristic, order, it_begin, pc, step_function_old>>
    /\ UNCHANGED <<efficacy, genVars>>

\* The task loop is exhausted and the heuristic returns.
ReturnRejectsEmpty ==
    /\ pc = "alloc" /\ i = Len(tasks) /\ Len(tasks) > 0
    /\ pc' = "done"
    /\ UNCHANGED <<heuristic, order, step_function, tasks, i, it_begin,
                   step_function_old, prev_sf, prev_it_begin>>
    /\ UNCHANGED <<efficacy, genVars>>

Return ==
    /\ pc = "alloc" /\ i = Len(tasks)
    /\ pc' = "done"
    /\ UNCHANGED <<heuristic, order, step_function, tasks, i, it_begin,
                   step_function_old, prev_sf, prev_it_begin>>
    /\ UNCHANGED <<efficacy, genVars>>

Next == FirstFit \/ NextFit \/ BestFit \/ Return

Spec == Init /\ [][Next]_vars

\* ------------------------------------------------------- efficacy of a trial
\* sum(step_function)
RECURSIVE PySum(_)
PySum(sf) == IF sf = <<>> THEN 0 ELSE Head(sf) + PySum(Tail(sf))

\* total_area = 0; for x in tasks: total_area += x.width * x.height
\* (taken before the sort; widths and heights never change afterwards)
RECURSIVE TotalArea(_)
TotalArea(ts) ==
    IF ts = <<>> THEN 0 ELSE Head(ts).width * Head(ts).height + TotalArea(Tail(ts))

\* min(a, b) of Python: the first argument unless the second is smaller
PyMin(a, b) == IF b < a THEN b ELSE a

\* original_energy - remaining_energy
EfficacyNumeratorSwapped(original_energy, remaining_energy) ==
    remaining_energy - original_energy

EfficacyNumerator(original_energy, remaining_energy) ==
    original_energy - remaining_energy

Quotient(num, den) == [kind |-> "value", num |-> num, den |-> den]

NotANumber == [kind |-> "nan", num |-> 0, den |-> 0]

Infinite == [kind |-> "inf", num |-> 0, den |-> 0]

ZeroDivisionError == [kind |-> "ZeroDivisionError", num |-> 0, den |-> 0]

\* num / den with two Python ints: a zero denominator raises
IntDivide(num, den) ==
    IF den = 0 THEN ZeroDivisionError ELSE Quotient(num, den)

FloatDivideRaises(num, den) ==
    IF den = 0 THEN ZeroDivisionError ELSE Quotient(num, den)

\* num / den with a numpy float64 denominator: a zero denominator gives
\* nan (0/0) or inf with a warning, no exception
FloatDivide(num, den) ==
    IF den # 0 THEN Quotient(num, den)
    ELSE IF num = 0 THEN NotANumber ELSE Infinite

\* efficacy[order][heuristic] += [(original_energy - remaining_energy) /
\*                                min(total_area, original_energy)]
\* total_area is a numpy float64 (a sum of np.round results).  original_energy
\* is a sum of round(y) values and literal 0s: a Python int where round() of a
\* numpy float gives an int, a numpy float64 where it gives a numpy float;
\* which of the two depends on the numpy build, so both are allowed.
Evaluate ==
    /\ pc = "done"
    /\ LET original_energy  == PySum(step_function_old)
           remaining_energy == PySum(step_function)
           total_area       == TotalArea(tasks)
           num == EfficacyNumerator(original_energy, remaining_energy)
           den == PyMin(total_area, original_energy)
       IN  \E original_is_float \in BOOLEAN :
             LET q == IF total_area <= original_energy \/ original_is_float
                      THEN FloatDivide(num, den)
                      ELSE IntDivide(num, den)
             IN  IF q = ZeroDivisionError
                 THEN pc' = "crash" /\ UNCHANGED efficacy
                 ELSE pc' = "reported" /\ efficacy' = q
    /\ UNCHANGED <<heuristic, order, step_function, tasks, i, it_begin,
                   step_function_old, prev_sf, prev_it_begin, genVars>>

SpecAny == InitAny /\ [][Next]_vars

NextHarness == Sort \/ FirstFit \/ NextFit \/ BestFit \/ Return \/ Evaluate

SpecHarness == InitHarness /\ [][NextHarness]_vars

\* ------------------------------------------------------------- generators
\* Samples of the normal distributions are kept as a whole number of halves
\* (y2 = 2y), enough to tell apart a negative sample, 0, and the ties 0.5,
\* 1.5, 2.5 of the rounding.

\* round(y) of Python and np.round(y): ties go to the even neighbour.
RoundHalfEven2(y2) ==
    IF y2 % 2 = 0 THEN y2 \div 2
    ELSE LET lo == (y2 - 1) \div 2 IN IF lo % 2 = 0 THEN lo ELSE lo + 1

\* round(y) if y > 0 else 0
UnclampedRound(y2) == RoundHalfEven2(y2)

ClampedRound(y2) == IF y2 > 0 THEN RoundHalfEven2(y2) ELSE 0

\* The random source: a seeded stream.  Whatever mean and sigma are, a sample
\* of the normal distribution can be any real number, so the sample does not
\* depend on the peak of the day.
NextRng(r) == (5 * r + 3) % RngMod

Sample2(r) == r - (RngMod \div 2)

\* Alloc state while only a generator runs.
AllocIdle ==
    /\ heuristic = "none" /\ order = "none"
    /\ step_function = <<>> /\ tasks = <<>>
    /\ i = 0 /\ it_begin = 0
    /\ step_function_old = <<>> /\ prev_sf = <<>> /\ prev_it_begin = 0
    /\ efficacy = [kind |-> "none", num |-> 0, den |-> 0]

\* generate_step_function() is entered.
InitStepGen ==
    /\ AllocIdle
    /\ pc = "step_gen"
    /\ rng \in 0..(RngMod - 1)
    /\ day = 0 /\ hour = 0
    /\ energy_day = <<>> /\ energy_weekly = <<>> /\ energy_daily = <<>>
    /\ num_tasks = 0 /\ gen_tasks = <<>> /\ cur_width = -1
    /\ CollectorIdle

\* if t < 8 or t >= 21: y = 0
GenNight ==
    /\ pc = "step_gen" /\ day < Days /\ hour < HoursPerDay
    /\ hour < ActiveStart \/ hour >= ActiveEnd
    /\ energy_day' = Append(energy_day, ClampedRound(0))
    /\ hour' = hour + 1
    /\ UNCHANGED <<allocVars, efficacy, rng, day, energy_weekly, energy_daily, taskGenVars, collVars>>

\* elif t in range(8, 14): y = np.random.normal(mean, sigma)
GenRise ==
    /\ pc = "step_gen" /\ day < Days /\ hour < HoursPerDay
    /\ hour >= ActiveStart /\ hour < FallStart
    /\ energy_day' = Append(energy_day, ClampedRound(Sample2(rng)))
    /\ rng' = NextRng(rng)
    /\ hour' = hour + 1
    /\ UNCHANGED <<allocVars, efficacy, day, energy_weekly, energy_daily, taskGenVars, collVars>>

\* elif t in range(14, 21): y = np.random.normal(mean, sigma)
GenFall ==
    /\ pc = "step_gen" /\ day < Days /\ hour < HoursPerDay
    /\ hour >= FallStart /\ hour < ActiveEnd
    /\ energy_day' = Append(energy_day, ClampedRound(Sample2(rng)))
    /\ rng' = NextRng(rng)
    /\ hour' = hour + 1
    /\ UNCHANGED <<allocVars, efficacy, day, energy_weekly, energy_daily, taskGenVars, collVars>>

\* energy_weekly += energy_day; energy_daily.append(energy_day); next day
GenDayEnd ==
    /\ pc = "step_gen" /\ day < Days /\ hour = HoursPerDay
    /\ energy_weekly' = energy_weekly \o energy_day
    /\ energy_daily' = Append(energy_daily, energy_day)
    /\ energy_day' = <<>>
    /\ day' = day + 1
    /\ hour' = 0
    /\ UNCHANGED <<allocVars, efficacy, rng, taskGenVars, collVars>>

\* return energy_weekly, energy_daily
GenStepReturn ==
    /\ pc = "step_gen" /\ day = Days
    /\ pc' = "step_done"
    /\ UNCHANGED <<heuristic, order, step_function, tasks, i, it_begin,
                   step_function_old, prev_sf, prev_it_begin, efficacy, genVars>>

NextStepGen == GenNight \/ GenRise \/ GenFall \/ GenDayEnd \/ GenStepReturn

SpecStepGen == InitStepGen /\ [][NextStepGen]_vars

\* generate_task(num_tasks, mean_height, sigma_height) is entered.
Samples2 == (-1)..MaxSample2

InitTaskGen ==
    /\ AllocIdle
    /\ pc = "task_gen"
    /\ num_tasks \in 0..MaxTasks
    /\ gen_tasks = <<>> /\ cur_width = -1
    /\ rng = 0 /\ day = 0 /\ hour = 0
    /\ energy_day = <<>> /\ energy_weekly = <<>> /\ energy_daily = <<>>
    /\ CollectorIdle

\* while True: width = np.random.normal(1, 2.5)
\*             if width >= 0.5: width = np.round(width); break
SampleWidth ==
    /\ pc = "task_gen" /\ Len(gen_tasks) < num_tasks /\ cur_width = -1
    /\ \E y2 \in Samples2 :
         IF y2 >= 1 THEN cur_width' = RoundHalfEven2(y2) ELSE UNCHANGED cur_width
    /\ UNCHANGED <<allocVars, efficacy, stepGenVars, num_tasks, gen_tasks, collVars>>

\* while True: height = np.random.normal(mean_height, sigma_height)
\*             if height >= 0.5: height = np.round(height); break
\* tasks += [task(width, height)]
SampleHeight ==
    /\ pc = "task_gen" /\ Len(gen_tasks) < num_tasks /\ cur_width # -1
    /\ \E y2 \in Samples2 :
         IF y2 >= 1
         THEN /\ gen_tasks' = Append(gen_tasks, task(cur_width, RoundHalfEven2(y2)))
              /\ cur_width' = -1
         ELSE UNCHANGED <<gen_tasks, cur_width>>
    /\ UNCHANGED <<allocVars, efficacy, stepGenVars, num_tasks, collVars>>

\* return tasks
TaskGenReturn ==
    /\ pc = "task_gen" /\ Len(gen_tasks) = num_tasks
    /\ pc' = "task_done"
    /\ UNCHANGED <<heuristic, order, step_function, tasks, i, it_begin,
                   step_function_old, prev_sf, prev_it_begin, efficacy, genVars>>

NextTaskGen == SampleWidth \/ SampleHeight \/ TaskGenReturn

SpecTaskGen == InitTaskGen /\ [][NextTaskGen]_vars

\* --------------------------------------------------------------- collector
\* Collector.get_energy_24h of tools/energy_collector/collector.py.  One action
\* is one pass of its `while True` loop: a query is sent, the device's
\* response is received and handled.  The response is the input of the pass.

\* The text of a JSON string: characters, of which "1" is a decimal digit.
Chars == {"1", "x"}

Texts == UNION {[1..n -> Chars] : n \in 0..MaxChars}

\* int(text): the decimal value, ValueError for an empty text or a text with
\* a character that is no digit.  ok = FALSE stands for the ValueError.
RECURSIVE DecimalValue(_)
DecimalValue(text) ==
    IF text = <<>> THEN 0
    ELSE 10 * DecimalValue(SubSeq(text, 1, Len(text) - 1))
         + (IF text[Len(text)] = "1" THEN 1 ELSE 0)

PyInt(text) ==
    IF text # <<>> /\ \A k \in 1..Len(text) : text[k] = "1"
    THEN [ok |-> TRUE, value |-> DecimalValue(text)]
    ELSE [ok |-> FALSE, value |-> 0]

\* The value under "EnergyStat": None (key absent or null), a value that is
\* not an object (a string), or an object whose "values" is None or a list.
NoEnergyStat == [type |-> "None", has_values |-> FALSE, values |-> <<>>]

EnergyStatString == [type |-> "str", has_values |-> FALSE, values |-> <<>>]

EnergyStatObject(has_values, values) ==
    [type |-> "dict", has_values |-> has_values, values |-> values]

EnergyLists == {<<>>, <<3, 4>>}

EnergyStats ==
    {NoEnergyStat, EnergyStatString, EnergyStatObject(FALSE, <<>>)}
        \cup {EnergyStatObject(TRUE, l) : l \in EnergyLists}

\* The value under "CurrentDateInSec": None, or a string.
NoDate == [type |-> "None", text |-> <<>>]

Dates == {NoDate} \cup {[type |-> "str", text |-> x] : x \in Texts}

\* What the device answers to one query: the HTTP status and the body, which
\* is no JSON at all, a JSON array, or a JSON object with the two keys.
Response(status, json, stat, date) ==
    [status |-> status, json |-> json, EnergyStat |-> stat, CurrentDateInSec |-> date]

Responses ==
    {Response(500, "invalid", NoEnergyStat, NoDate),
     Response(HttpOk, "invalid", NoEnergyStat, NoDate),
     Response(HttpOk, "array", NoEnergyStat, NoDate)}
        \cup {Response(HttpOk, "object", st, d) : st \in EnergyStats, d \in Dates}

\* response.get("EnergyStat") is None or response["EnergyStat"].get("values") is None
LacksEnergyStat(r) ==
    \/ r.EnergyStat.type = "None"
    \/ r.EnergyStat.type = "dict" /\ ~r.EnergyStat.has_values

\* The two .get calls of that test raise AttributeError on a value that is
\* no dict: the body itself, or the value under "EnergyStat".
GetRaises(r) == r.json = "array" \/ r.EnergyStat.type = "str"

\* if num_tries < 2:
MayRetryOffByOne(n) == n <= MaxRetries

MayRetry(n) == n < MaxRetries

\* get_energy_24h is entered: num_tries = 0
InitCollector ==
    /\ AllocIdle
    /\ pc = "query"
    /\ rng = 0 /\ day = 0 /\ hour = 0
    /\ energy_day = <<>> /\ energy_weekly = <<>> /\ energy_daily = <<>>
    /\ num_tasks = 0 /\ gen_tasks = <<>> /\ cur_width = -1
    /\ CollectorIdle

CollectorFrame == UNCHANGED <<heuristic, order, step_function, tasks, i, it_begin,
                              step_function_old, prev_sf, prev_it_begin, efficacy,
                              stepGenVars, taskGenVars>>

\* _get_http_response: a status other than 200 ends the process (sys.exit).
QueryHttpError ==
    /\ pc = "query"
    /\ \E r \in Responses :
         /\ r.status # HttpOk
         /\ queries' = Append(queries, r)
    /\ outcome' = Outcome("SystemExit", "Could not connect to FRITZ!Box", 0, <<>>)
    /\ pc' = "exit"
    /\ UNCHANGED num_tries
    /\ CollectorFrame

\* json.loads raises on a body that is no JSON; .get raises on a value that
\* is no dict.  Nothing in get_energy_24h catches either.
QueryMalformed ==
    /\ pc = "query"
    /\ \E r \in Responses :
         /\ r.status = HttpOk
         /\ r.json = "invalid" \/ GetRaises(r)
         /\ queries' = Append(queries, r)
         /\ outcome' = Outcome(IF r.json = "invalid" THEN "JSONDecodeError"
                                ELSE "AttributeError", "", 0, <<>>)
    /\ pc' = "raised"
    /\ UNCHANGED num_tries
    /\ CollectorFrame

\* no energy stat and num_tries < 2: num_tries += 1; sleep; continue
QueryRetry ==
    /\ pc = "query"
    /\ \E r \in Responses :
         /\ r.status = HttpOk /\ r.json = "object" /\ ~GetRaises(r)
         /\ LacksEnergyStat(r)
         /\ queries' = Append(queries, r)
    /\ MayRetry(num_tries)
    /\ num_tries' = num_tries + 1
    /\ UNCHANGED <<pc, outcome>>
    /\ CollectorFrame

\* no energy stat and num_tries >= 2: print_and_log(..., exit=True)
QueryNoEnergyStat ==
    /\ pc = "query"
    /\ \E r \in Responses :
         /\ r.status = HttpOk /\ r.json = "object" /\ ~GetRaises(r)
         /\ LacksEnergyStat(r)
         /\ queries' = Append(queries, r)
    /\ ~MayRetry(num_tries)
    /\ outcome' = Outcome("SystemExit", "No energy stat in FRITZ!Box response", 0, <<>>)
    /\ pc' = "exit"
    /\ UNCHANGED num_tries
    /\ CollectorFrame

\* elif response.get("CurrentDateInSec") is None: print_and_log(..., exit=True)
QueryNoTimestamp ==
    /\ pc = "query"
    /\ \E r \in Responses :
         /\ r.status = HttpOk /\ r.json = "object" /\ ~GetRaises(r)
         /\ ~LacksEnergyStat(r)
         /\ r.CurrentDateInSec.type = "None"
         /\ queries' = Append(queries, r)
    /\ outcome' = Outcome("SystemExit", "No current timestamp in FRITZ!Box response", 0, <<>>)
    /\ pc' = "exit"
    /\ UNCHANGED num_tries
    /\ CollectorFrame

\* else: return int(response["CurrentDateInSec"]), response["EnergyStat"]["values"]
\* int() raises ValueError on a text that is no number.
QueryReturn ==
    /\ pc = "query"
    /\ \E r \in Responses :
         /\ r.status = HttpOk /\ r.json = "object" /\ ~GetRaises(r)
         /\ ~LacksEnergyStat(r)
         /\ r.CurrentDateInSec.type # "None"
         /\ queries' = Append(queries, r)
         /\ LET n == PyInt(r.CurrentDateInSec.text) IN
              IF n.ok
              THEN /\ outcome' = Outcome("return", "", n.value, r.EnergyStat.values)
                   /\ pc' = "returned"
              ELSE /\ outcome' = Outcome("ValueError", "", 0, <<>>)
                   /\ pc' = "raised"
    /\ UNCHANGED num_tries
    /\ CollectorFrame

NextCollector ==
    \/ QueryHttpError \/ QueryMalformed \/ QueryRetry
    \/ QueryNoEnergyStat \/ QueryNoTimestamp \/ QueryReturn

SpecCollector == InitCollector /\ [][NextCollector]_vars

\* ------------------------------------------------- vocabulary of the claims
\* Slots s..s+w-1 exist in sf and each has capacity >= h.
Feasible(sf, s, w, h) ==
    /\ s >= 0
    /\ s + w <= Len(sf)
    /\ \A k \in s..(s + w - 1) : sf[k + 1] >= h

\* Start slots of the feasible windows of task x in profile sf.
Windows(sf, x) == {s \in 0..(Len(sf) - 1) : Feasible(sf, s, x.width, x.height)}

IsUnplaced(x) == x.start_time = Unplaced /\ x.end_time = Unplaced

Min(S) == CHOOSE m \in S : \A n \in S : m <= n

\* sf with h taken from exactly the slots a..b.
Reduced(sf, a, b, h) ==
    [s \in 1..Len(sf) |-> IF a <= s - 1 /\ s - 1 <= b THEN sf[s] - h ELSE sf[s]]

\* The task list with every placement back at the sentinel.
Fresh(ts) == [k \in 1..Len(ts) |-> task(ts[k].width, ts[k].height)]

\* C1: with a profile that starts >= 0 and power draws >= 0, every slot of the
\* profile is >= 0 in every state of a run of first_fit, next_fit or best_fit.
C1_SlotsNonNegative ==
    \A s \in 1..Len(step_function) : step_function[s] >= 0

C1_Witness ==
    /\ pc = "done"
    /\ \E s \in 1..Len(step_function) :
         step_function[s] = 0 /\ step_function_old[s] > 0

\* C2: for the task handled last, either its recorded placement is a window
\* that was feasible and the power draw was taken from exactly the slots
\* start_time..end_time, or it is at the unplaced sentinel and the profile is
\* the same as before the task.
C2_PlacedOrUntouched ==
    i > 0 =>
        LET x == tasks[i] IN
        IF IsUnplaced(x)
        THEN step_function = prev_sf
        ELSE /\ Feasible(prev_sf, x.start_time, x.width, x.height)
             /\ x.end_time = x.start_time + x.width - 1
             /\ step_function = Reduced(prev_sf, x.start_time, x.end_time, x.height)

\* C3: first_fit records the earliest-starting window that is feasible in the
\* profile as it stood before the task, and leaves the task unplaced only if
\* there is no feasible window; the worked scenario ends as documented.
C3_FirstFitEarliest ==
    /\ (heuristic = "first_fit" /\ i > 0) =>
          LET x == tasks[i]
              W == Windows(prev_sf, x)
          IN  IF W = {}
              THEN IsUnplaced(x) /\ step_function = prev_sf
              ELSE /\ x.start_time = Min(W)
                   /\ x.end_time = x.start_time + x.width - 1
                   /\ step_function = Reduced(prev_sf, x.start_time, x.end_time, x.height)
    /\ (/\ heuristic = "first_fit" /\ pc = "done"
        /\ step_function_old = <<5, 5, 5, 0, 0, 5, 5, 5>>
        /\ Fresh(tasks) = <<task(3, 5)>>) =>
          /\ tasks[1].start_time = 0 /\ tasks[1].end_time = 2
          /\ step_function = <<0, 0, 0, 0, 0, 5, 5, 5>>

\* The second task would have fitted at slot 0 of the original profile, but
\* the first placement has used that slot up.
C3_Witness ==
    /\ heuristic = "first_fit" /\ i = 2
    /\ ~IsUnplaced(tasks[1])
    /\ tasks[2].start_time > 0
    /\ tasks[2].width > 1
    /\ 0 \in Windows(step_function_old, tasks[2])

\* C4: next_fit's cursor persists across tasks: it starts at 0, after a
\* placement ending at e it is e+1 (0 if e+1 is the profile length), and the
\* next task is placed in the first feasible window starting at or after it.
C4_NextFitCursor ==
    heuristic = "next_fit" =>
        /\ i = 0 => it_begin = 0
        /\ i > 0 =>
             LET x == tasks[i]
                 W == {s \in Windows(prev_sf, x) : s >= prev_it_begin}
             IN  /\ W # {} => /\ x.start_time = Min(W)
                              /\ x.end_time = x.start_time + x.width - 1
                 /\ ~IsUnplaced(x) =>
                      it_begin = IF x.end_time + 1 = Len(step_function)
                                 THEN 0 ELSE x.end_time + 1

\* C5: best_fit ends with the same recorded placements and the same residual
\* profile as first_fit run on the same profile and the same ordered tasks.
C5_BestFitEqualsFirstFit ==
    (heuristic = "best_fit" /\ pc = "done") =>
        LET ff == first_fit(Fresh(tasks), step_function_old) IN
        /\ tasks = ff.tasks
        /\ step_function = ff.step_function

\* C6: the list the evaluation loop hands to the heuristic is in descending
\* order of the chosen key.
C6_SortedDescending ==
    pc \in {"alloc", "done"} =>
        \A k \in 1..(Len(tasks) - 1) :
            SortKey(order, tasks[k]) >= SortKey(order, tasks[k + 1])

\* C7: when every feasible window of the task lies entirely before the cursor
\* left by the task before it (none reaches or follows the cursor), next_fit
\* still places the task in such a window.
C7_NextFitWraps ==
    (heuristic = "next_fit" /\ i > 0) =>
        LET x == tasks[i]
            W == Windows(prev_sf, x)
        IN  (W # {} /\ \A s \in W : s + x.width - 1 < prev_it_begin) =>
                /\ x.start_time \in W
                /\ x.end_time = x.start_time + x.width - 1
                /\ step_function = Reduced(prev_sf, x.start_time, x.end_time, x.height)

C7_Witness ==
    /\ heuristic = "next_fit" /\ i > 1
    /\ prev_it_begin > 0
    /\ Cardinality(Windows(prev_sf, tasks[i])) = 1
    /\ \A s \in Windows(prev_sf, tasks[i]) : s + tasks[i].width - 1 < prev_it_begin
    /\ \E s \in (prev_it_begin + 1)..Len(prev_sf) : prev_sf[s] >= tasks[i].height
    /\ tasks[i].start_time \in Windows(prev_sf, tasks[i])

\* C8: every task whose placement is not the unplaced sentinel has
\* end_time - start_time + 1 = width.
C8_PlacedLength ==
    \A k \in 1..Len(tasks) :
        ~IsUnplaced(tasks[k]) => tasks[k].end_time - tasks[k].start_time + 1 = tasks[k].width

C8_Witness ==
    /\ heuristic = "best_fit" /\ pc = "done"
    /\ \E k \in 1..Len(tasks) :
         tasks[k].start_time >= 0 /\ tasks[k].width = MaxWidth

\* C9: tasks are handled in list order, one per step; a step changes no task
\* but the one being handled, never a task that already has a placement, and
\* never raises the capacity of a slot.
C9_Step ==
    /\ Len(step_function') = Len(step_function)
    /\ \A s \in 1..Len(step_function) : step_function'[s] <= step_function[s]
    /\ Len(tasks') = Len(tasks)
    /\ \A k \in 1..Len(tasks) :
         (k # i + 1 \/ ~IsUnplaced(tasks[k])) => tasks'[k] = tasks[k]
    /\ \A k \in (i' + 1)..Len(tasks) : IsUnplaced(tasks'[k])
    /\ i' \in {i, i + 1}

C9_GreedyIrrevocable == [][C9_Step]_vars

C9_Witness ==
    /\ pc = "done" /\ i = 2
    /\ ~IsUnplaced(tasks[1]) /\ ~IsUnplaced(tasks[2])
    /\ tasks[1].height > 0 /\ tasks[2].height > 0
    /\ tasks[2].start_time <= tasks[1].end_time
    /\ tasks[1].start_time <= tasks[2].end_time

\* C10: a task with no feasible window when it is handled stays at the
\* sentinel and leaves the profile as it was; the run is in no state other
\* than handling tasks or finished, and it finishes only after the whole list.
C10_InfeasibleIsNormal ==
    /\ i > 0 =>
         (Windows(prev_sf, tasks[i]) = {} =>
              IsUnplaced(tasks[i]) /\ step_function = prev_sf)
    /\ pc \in {"alloc", "done"}
    /\ pc = "done" => i = Len(tasks)

C10_Witness ==
    /\ pc = "done" /\ i = 2
    /\ step_function_old = <<3, 3, 3, 3>>
    /\ tasks[1].width = 2 /\ tasks[1].height = 5 /\ IsUnplaced(tasks[1])
    /\ ~IsUnplaced(tasks[2])

\* C11: when a task has a non-positive duration or a negative power draw, or
\* the profile or the task list is empty, the call does not complete normally
\* and neither the profile nor any placement has been modified.
InvalidConfig ==
    \/ step_function_old = <<>>
    \/ tasks = <<>>
    \/ \E k \in 1..Len(tasks) : tasks[k].width <= 0 \/ tasks[k].height < 0

C11_ValidateThenRun ==
    InvalidConfig =>
        /\ pc # "done"
        /\ step_function = step_function_old
        /\ tasks = Fresh(tasks)

\* C12: when a trial reports a quotient and total_task_area <= original_energy,
\* the reported value is (original - remaining) / min(total_area, original)
\* and 0 <= original - remaining <= min(total_area, original), i.e. the
\* efficacy lies in [0, 1].
C12_EfficacyInUnitInterval ==
    (/\ pc = "reported" /\ efficacy.kind = "value"
     /\ TotalArea(tasks) <= PySum(step_function_old)) =>
        /\ efficacy.den = TotalArea(tasks)
        /\ efficacy.num = PySum(step_function_old) - PySum(step_function)
        /\ 0 <= efficacy.num
        /\ efficacy.num <= efficacy.den

C12_Witness ==
    /\ pc = "reported" /\ efficacy.kind = "value"
    /\ TotalArea(tasks) <= PySum(step_function_old)
    /\ 0 < efficacy.num /\ efficacy.num < efficacy.den

\* C13: when total_task_area and original_energy are both 0 the trial does
\* not crash and reports NaN, not a number.
C13_DegenerateEfficacyIsNaN ==
    (TotalArea(tasks) = 0 /\ PySum(step_function_old) = 0) =>
        /\ pc # "crash"
        /\ pc = "reported" => efficacy = NotANumber
        /\ pc = "done" => ENABLED Evaluate

C13_Witness ==
    /\ TotalArea(tasks) = 0 /\ PySum(step_function_old) = 0
    /\ pc = "reported" /\ efficacy = NotANumber

\* C14: a run with an empty task list and a non-empty profile can always
\* return, is never in an error state, and leaves the profile as it was, so
\* remaining_energy = original_energy (there is no task to place).
C14_EmptyTaskList ==
    (tasks = <<>> /\ Len(step_function_old) > 0) =>
        /\ step_function = step_function_old
        /\ PySum(step_function) = PySum(step_function_old)
        /\ pc \in {"alloc", "done"}
        /\ pc = "alloc" => ENABLED Return

C14_Witness ==
    /\ tasks = <<>> /\ Len(step_function_old) > 0
    /\ pc = "done"
    /\ step_function = step_function_old

\* C16: a step of an allocation run keeps the number and order of the tasks
\* and every width and height; it changes the placement of no task but the
\* one the loop is at, and moves the loop on when it does (so each placement
\* is written at most once).
C16_Step ==
    /\ Len(tasks') = Len(tasks)
    /\ \A k \in 1..Len(tasks) :
         /\ tasks'[k].width = tasks[k].width
         /\ tasks'[k].height = tasks[k].height
         /\ (tasks'[k].start_time # tasks[k].start_time
                \/ tasks'[k].end_time # tasks[k].end_time)
              => (k = i + 1 /\ i' = i + 1 /\ IsUnplaced(tasks[k]))

C16_TasksImmutable == [][C16_Step]_vars

C16_Witness ==
    /\ pc = "done" /\ i = 2
    /\ ~IsUnplaced(tasks[1]) /\ ~IsUnplaced(tasks[2])
    /\ tasks[1].width > tasks[2].width
    /\ tasks[1].height < tasks[2].height

\* Sum of the power draws of the tasks whose recorded window contains slot t.
RECURSIVE RecordedDraw(_, _)
RecordedDraw(ts, t) ==
    IF ts = <<>> THEN 0
    ELSE (IF Head(ts).start_time <= t /\ t <= Head(ts).end_time /\ ~IsUnplaced(Head(ts))
          THEN Head(ts).height ELSE 0) + RecordedDraw(Tail(ts), t)

\* Sum of width x height over the tasks recorded as placed.
RECURSIVE RecordedArea(_)
RecordedArea(ts) ==
    IF ts = <<>> THEN 0
    ELSE (IF IsUnplaced(Head(ts)) THEN 0 ELSE Head(ts).width * Head(ts).height)
         + RecordedArea(Tail(ts))

\* C17: for every slot t, original[t] - residual[t] is the sum of the power
\* draws of the tasks whose recorded window contains t, and the energy used is
\* the sum of width x height over the tasks recorded as placed.
C17_EnergyConservation ==
    /\ \A s \in 1..Len(step_function) :
         step_function_old[s] - step_function[s] = RecordedDraw(tasks, s - 1)
    /\ PySum(step_function_old) - PySum(step_function) = RecordedArea(tasks)

\* C18: next_fit ends with the placements and the residual profile that
\* first_fit produces from the same profile and the same ordered tasks.
C18_NextFitEqualsFirstFit ==
    (heuristic = "next_fit" /\ pc = "done") =>
        LET ff == first_fit(Fresh(tasks), step_function_old) IN
        /\ tasks = ff.tasks
        /\ step_function = ff.step_function

\* The second task is placed before the slot at which the first one left
\* it_begin.
C18_Witness ==
    /\ heuristic = "next_fit" /\ pc = "done" /\ i = 2
    /\ ~IsUnplaced(tasks[1]) /\ ~IsUnplaced(tasks[2])
    /\ prev_it_begin > 0
    /\ tasks[2].end_time < prev_it_begin
    /\ tasks[2].height > 0

RECURSIVE Flatten(_)
Flatten(ss) == IF ss = <<>> THEN <<>> ELSE Head(ss) \o Flatten(Tail(ss))

\* C19: generate_step_function returns a flat profile of 7 x 24 = 168 slots
\* that is the concatenation, in day order, of the 7 daily sequences of 24
\* slots it also returns; every slot is a non-negative integer and every slot
\* of an hour before 8 or from 21 on is 0.
C19_StepFunctionShape ==
    pc = "step_done" =>
        /\ Len(energy_weekly) = 168
        /\ Len(energy_daily) = 7
        /\ \A d \in 1..Len(energy_daily) : Len(energy_daily[d]) = 24
        /\ energy_weekly = Flatten(energy_daily)
        /\ \A s \in 1..Len(energy_weekly) :
             /\ energy_weekly[s] \in Nat
             /\ ((s - 1) % 24 < 8 \/ (s - 1) % 24 >= 21) => energy_weekly[s] = 0

\* A finished week with a positive slot, and with a non-positive sample in an
\* active hour that was clamped to 0.
C19_Witness ==
    /\ pc = "step_done"
    /\ \E s \in 1..Len(energy_weekly) : energy_weekly[s] > 1
    /\ \E s \in 1..Len(energy_weekly) :
         (s - 1) % 24 >= 8 /\ (s - 1) % 24 < 21 /\ energy_weekly[s] = 0
    /\ energy_daily[1] # energy_daily[2]

\* C20: generate_task returns exactly num_tasks tasks, all unplaced, each with
\* width >= 1 and height >= 1, whatever samples >= 0.5 were accepted.
C20_GeneratedTasks ==
    pc = "task_done" =>
        /\ Len(gen_tasks) = num_tasks
        /\ \A k \in 1..Len(gen_tasks) :
             /\ IsUnplaced(gen_tasks[k])
             /\ gen_tasks[k].width >= 1
             /\ gen_tasks[k].height >= 1

\* The response carries a list under EnergyStat.values.
HasValues(r) ==
    /\ r.status = HttpOk /\ r.json = "object"
    /\ r.EnergyStat.type = "dict" /\ r.EnergyStat.has_values

\* The response carries a CurrentDateInSec.
HasDate(r) == r.json = "object" /\ r.CurrentDateInSec.type # "None"

\* The response that ended or continued the last pass of the loop.
LastResponse == queries[Len(queries)]

\* What C21 says of the queries and of the responses that lack something:
\* at most 3 queries are sent; only a response without EnergyStat values is
\* followed by another query, at most twice; a third such response, and any
\* such response that is not retried, ends the call with an error; a response
\* with values but without CurrentDateInSec ends it at once with the
\* "no current timestamp" exit.
BoundedRetries ==
    /\ Len(queries) <= 3
    /\ num_tries <= 2
    /\ \A k \in 1..(Len(queries) - 1) : ~HasValues(queries[k])
    /\ pc = "query" =>
          /\ Len(queries) = num_tries
          /\ \A k \in 1..Len(queries) : ~HasValues(queries[k])
    /\ Len(queries) = 3 => pc # "query"
    /\ (pc # "query" /\ ~HasValues(LastResponse)) =>
          /\ pc \in {"exit", "raised"}
          /\ outcome.kind \in {"SystemExit", "JSONDecodeError", "AttributeError"}
    /\ (/\ Len(queries) = 3 /\ LastResponse.json = "object"
        /\ LastResponse.status = HttpOk /\ LacksEnergyStat(LastResponse)) =>
          /\ pc = "exit"
          /\ outcome = Outcome("SystemExit", "No energy stat in FRITZ!Box response", 0, <<>>)
    /\ (Len(queries) > 0 /\ HasValues(LastResponse) /\ ~HasDate(LastResponse)) =>
          /\ pc = "exit"
          /\ outcome = Outcome("SystemExit", "No current timestamp in FRITZ!Box response", 0, <<>>)

====
